---- MODULE Spec2Model ----
(***************************************************************************)
(* Share-IT share-link lifecycle: the upload, share-page, download and     *)
(* scheduled-cleanup handlers of the Express server (src/unnamed/part_000) *)
(* over the mongoose File collection and the uploads directory.            *)
(*                                                                         *)
(* Every handler is an async function: it runs synchronously up to an      *)
(* `await` and other handlers run while it waits.  Each action below is    *)
(* one such synchronous stretch, together with the database operation the  *)
(* preceding `await` resolved.                                             *)
(*                                                                         *)
(* mongoose's Document.save() writes the paths the handler modified on its *)
(* in-memory copy, not the whole document: `$set` for a changed scalar,    *)
(* `$push` for Array.push, with only `_id` in the filter.  Save is that.   *)
(*                                                                         *)
(* Time is counted in hours (the code: milliseconds).                      *)
(***************************************************************************)
EXTENDS Integers, Sequences, FiniteSets, TLC

VARIABLES
    now,        \* the clock: what `new Date()` returns
    files,      \* the File collection: _id -> document, or NoFile
    uploads,    \* the uploads directory: the paths that exist under UPLOADS_DIR
    reqs,       \* the HTTP requests: position, in-memory document, response
    cron,       \* the scheduled cleanup: position and the documents it found
    recentShares \* the RecentShares component: its state and its fetches

vars == <<now, files, uploads, reqs, cron, recentShares>>

----------------------------------------------------------------------------
(* Bounds of the model *)

MaxOps == 3         \* uploads and requests ever received, together
MaxDays == 2        \* days the clock runs
QuotaDefault == 1   \* stands for the schema default of maxDownloads (50)
MaxFetches == 3     \* metadata requests the RecentShares component issues

FileIds == 1..MaxOps
ReqIds == 1..MaxOps

----------------------------------------------------------------------------
(* calculateExpirationDate *)

Digits == <<"0", "1", "2", "3", "4", "5", "6", "7", "8", "9">>

IsDigit(c) == \E i \in 1..10 : Digits[i] = c

DigitVal(c) == (CHOOSE i \in 1..10 : Digits[i] = c) - 1

IsUnit(c) == c \in {"h", "d", "w", "m"}

timeUnits(u) ==
    CASE u = "h" -> 1
      [] u = "d" -> 24
      [] u = "w" -> 7 * 24
      [] u = "m" -> 30 * 24

DefaultHours == 24

\* the end (exclusive) of the run of digits of s that starts at i
RECURSIVE DigitsEnd(_, _)
DigitsEnd(s, i) ==
    IF i <= Len(s) /\ IsDigit(s[i]) THEN DigitsEnd(s, i + 1) ELSE i

\* parseInt of the digits s[i..j-1]
RECURSIVE ParseInt(_, _, _)
ParseInt(s, i, j) ==
    IF j <= i THEN 0 ELSE ParseInt(s, i, j - 1) * 10 + DigitVal(s[j - 1])

\* expiresIn.match(/(\d+)([hdwm])/): the leftmost i at which a run of digits
\* is followed by a unit letter, as <<amount, unit>>; <<>> when none
RECURSIVE Match(_, _)
Match(s, i) ==
    IF i > Len(s) THEN <<>>
    ELSE LET j == DigitsEnd(s, i) IN
         IF j > i /\ j <= Len(s) /\ IsUnit(s[j])
         THEN <<ParseInt(s, i, j), s[j]>>
         ELSE Match(s, i + 1)

\* no default: a string without a match expires at once
calculateExpirationDateOrNow(expiresIn, t) ==
    LET match == Match(expiresIn, 1) IN
    IF match = <<>> THEN t
    ELSE t + match[1] * timeUnits(match[2])

calculateExpirationDate(expiresIn, t) ==
    LET match == Match(expiresIn, 1) IN
    IF match = <<>> THEN t + DefaultHours
    ELSE t + match[1] * timeUnits(match[2])

----------------------------------------------------------------------------
(* The File documents and mongoose's save *)

NoFile == [status |-> "none"]

NoPassword == "undefined"

\* bcrypt.hash(password, salt) and bcrypt.compare(password, hash)
bcryptHash(password) == <<"bcrypt", password>>

\* the comparison's promise taken for its result: every password passes
bcryptCompareUnawaited(password, hash) == TRUE

bcryptCompare(password, hash) == hash = bcryptHash(password)

\* the document without the schema's default of maxDownloads
NewFileNoLimit(id, expiresAt, passwordProtected, passwordHash) ==
    [ path |-> id,
      expiresAt |-> expiresAt,
      passwordProtected |-> passwordProtected,
      passwordHash |-> passwordHash,
      downloads |-> 0,
      maxDownloads |-> 0,
      status |-> "active",
      downloadHistory |-> <<>> ]

\* new File({...}) of the upload handler, with the schema's defaults
NewFile(id, expiresAt, passwordProtected, passwordHash) ==
    [ path |-> id,
      expiresAt |-> expiresAt,
      passwordProtected |-> passwordProtected,
      passwordHash |-> passwordHash,
      downloads |-> 0,
      maxDownloads |-> QuotaDefault,
      status |-> "active",
      downloadHistory |-> <<>> ]

\* the in-memory document a query returns: the stored fields (of the
\* downloadHistory array only what the handler pushes is held, the handlers
\* read nothing of it), no path modified yet
Found(id, file) ==
    [ id |-> id,
      fields |-> [f \in DOMAIN file \ {"downloadHistory"} |-> file[f]],
      modified |-> {},
      pushed |-> <<>> ]

NoDoc == [id |-> 0]

\* doc.<path> = value: mongoose marks the path modified when the value changes
SetPath(doc, path, value) ==
    IF doc.fields[path] = value THEN doc
    ELSE [doc EXCEPT !.fields[path] = value, !.modified = @ \cup {path}]

\* doc.downloadHistory.push(entry)
PushHistory(doc, entry) ==
    [doc EXCEPT !.pushed = Append(@, entry)]

\* a save that writes the whole in-memory document over the stored one
SaveDocument(store, doc) ==
    IF store[doc.id] = NoFile THEN store
    ELSE [store EXCEPT ![doc.id] =
            [f \in DOMAIN @ |->
                IF f = "downloadHistory" THEN @[f] \o doc.pushed
                ELSE doc.fields[f]]]

\* doc.save(): updateOne({_id}, {$set: the modified paths, $push: the pushed
\* entries}); the paths the handler did not touch keep their stored values
Save(store, doc) ==
    IF store[doc.id] = NoFile THEN store
    ELSE [store EXCEPT ![doc.id] =
            [f \in DOMAIN @ |->
                IF f = "downloadHistory" THEN @[f] \o doc.pushed
                ELSE IF f \in doc.modified THEN doc.fields[f]
                ELSE @[f]]]

\* the in-memory document once save() has resolved: nothing left to write
Saved(doc) == [doc EXCEPT !.modified = {}, !.pushed = <<>>]

----------------------------------------------------------------------------
(* The RecentShares component (src/RecentShares.tsx): the status filter,   *)
(* the loading and error flags, the metadata requests it has issued in     *)
(* order, and the request whose data `files` and `summary` hold (0: the    *)
(* empty list of useState).                                                *)

FilterStatuses == {"all", "active", "expired", "disabled"}

initialState ==
    [ status |-> "all",
      loading |-> TRUE,
      error |-> FALSE,
      files |-> 0,
      fetches |-> <<>> ]

\* fetchFiles up to its await: setLoading(true), setError(null), fetch(...)
\* with the filters of the render that made the callback
fetchFiles(state) ==
    [state EXCEPT
       !.loading = TRUE,
       !.error = FALSE,
       !.fetches = Append(@, [status |-> state.status, pc |-> "pending"])]

\* useEffect(() => { fetchFiles() }, [fetchFiles]) at mount, and
\* handleMutation's `await fetchFiles()` once its apiCall has resolved
Refetch ==
    /\ Len(recentShares.fetches) < MaxFetches
    /\ recentShares' = fetchFiles(recentShares)
    /\ UNCHANGED <<now, files, uploads, reqs, cron>>

\* dispatch({type: 'SET_STATUS'}): the filter changes, fetchFiles is made
\* anew and the effect calls it
SetStatus(status) ==
    /\ Len(recentShares.fetches) < MaxFetches
    /\ status # recentShares.status
    /\ recentShares' = fetchFiles([recentShares EXCEPT !.status = status])
    /\ UNCHANGED <<now, files, uploads, reqs, cron>>

\* the response of the k-th request has arrived, ok: setFiles, setSummary,
\* and setLoading(false) of the finally block
FetchResolved(k) ==
    /\ k \in 1..Len(recentShares.fetches)
    /\ recentShares.fetches[k].pc = "pending"
    /\ recentShares' = [recentShares EXCEPT
                          !.files = k,
                          !.loading = FALSE,
                          !.fetches[k].pc = "ok"]
    /\ UNCHANGED <<now, files, uploads, reqs, cron>>

\* the k-th request failed or was answered not ok: setError of the catch
\* block, and setLoading(false)
FetchFailed(k) ==
    /\ k \in 1..Len(recentShares.fetches)
    /\ recentShares.fetches[k].pc = "pending"
    /\ recentShares' = [recentShares EXCEPT
                          !.error = TRUE,
                          !.loading = FALSE,
                          !.fetches[k].pc = "failed"]
    /\ UNCHANGED <<now, files, uploads, reqs, cron>>

NextRecentShares ==
    \/ Refetch
    \/ \E status \in FilterStatuses : SetStatus(status)
    \/ \E k \in 1..MaxFetches : FetchResolved(k)
    \/ \E k \in 1..MaxFetches : FetchFailed(k)

----------------------------------------------------------------------------
(* Initial state: an empty collection, an empty uploads directory, no       *)
(* request received.                                                       *)

Idle == [pc |-> "idle", id |-> 0, password |-> NoPassword, doc |-> NoDoc,
         res |-> "none"]

Init ==
    /\ now = 0
    /\ files = [id \in FileIds |-> NoFile]
    /\ uploads = {}
    /\ reqs = [r \in ReqIds |-> Idle]
    /\ cron = [pc |-> "idle", expiredFiles |-> <<>>]
    /\ recentShares = initialState

\* the clock advances a day at a time
Tick ==
    /\ now < MaxDays * timeUnits("d")
    /\ now' = now + timeUnits("d")
    /\ UNCHANGED <<files, uploads, reqs, cron, recentShares>>

\* the uploads and requests received so far
Admitted ==
    Cardinality({id \in FileIds : files[id] # NoFile})
    + Cardinality({r \in ReqIds : reqs[r].pc # "idle"})

----------------------------------------------------------------------------
(* POST /upload *)

UploadPasswords == {NoPassword, "", "pw"}

UploadExpiresIn == {<<"1", "d">>, <<"s", "o", "o", "n">>}

\* every document stored as password-protected, with or without a hash
UploadProtected(password, expiresIn) ==
    /\ Admitted < MaxOps
    /\ \E id \in FileIds :
         /\ files[id] = NoFile
         /\ \A lower \in FileIds : lower < id => files[lower] # NoFile
         /\ LET passwordHash == IF password \notin {NoPassword, ""}
                                THEN bcryptHash(password) ELSE <<>>
                expiresAt == calculateExpirationDate(expiresIn, now)
            IN  files' = [files EXCEPT ![id] =
                    NewFile(id, expiresAt, TRUE, passwordHash)]
         /\ uploads' = uploads \cup {id}
    /\ UNCHANGED <<now, reqs, cron, recentShares>>

\* multer stores the file, the handler hashes the password, computes the
\* expiry and saves the new document
Upload(password, expiresIn) ==
    /\ Admitted < MaxOps
    /\ \E id \in FileIds :
         /\ files[id] = NoFile
         /\ \A lower \in FileIds : lower < id => files[lower] # NoFile
         /\ LET passwordProtected == password \notin {NoPassword, ""}
                passwordHash == IF passwordProtected
                                THEN bcryptHash(password) ELSE <<>>
                expiresAt == calculateExpirationDate(expiresIn, now)
            IN  files' = [files EXCEPT ![id] =
                    NewFile(id, expiresAt, passwordProtected, passwordHash)]
         /\ uploads' = uploads \cup {id}
    /\ UNCHANGED <<now, reqs, cron, recentShares>>

----------------------------------------------------------------------------
(* The requests.  A request is received once; the requests are received in *)
(* the order of their numbers.                                             *)

Receivable(r) ==
    /\ Admitted < MaxOps
    /\ reqs[r].pc = "idle"
    /\ \A lower \in ReqIds : lower < r => reqs[lower].pc # "idle"

\* res.status(...).json/send/download: the handler is over
Respond(r, id, res) ==
    reqs' = [reqs EXCEPT ![r] =
        [pc |-> "done", id |-> id, password |-> NoPassword, doc |-> NoDoc,
         res |-> res]]

\* the handler waits (await) at position pc, holding doc
Await(r, id, pc, password, doc) ==
    reqs' = [reqs EXCEPT ![r] =
        [pc |-> pc, id |-> id, password |-> password, doc |-> doc,
         res |-> "none"]]

\* the HTTP status of each response: res.status(...) of the download
\* handler, 200 for res.download and for the pages of GET /share/:id
StatusCode(res) ==
    CASE res = "NotFound" -> 404
      [] res = "Expired" -> 403
      [] res = "Inactive" -> 403
      [] res = "QuotaExceeded" -> 403
      [] res = "Unauthorized" -> 401
      [] res = "Integrity" -> 404
      [] res = "PageNotFound" -> 404
      [] res = "PageExpired" -> 403
      [] res = "RouteNotFound" -> 404
      [] OTHER -> 200

\* the ids a request may name: those of the collection and one of no document
RequestIds == FileIds \cup {MaxOps + 1}

FindById(id) == IF id \in FileIds THEN files[id] ELSE NoFile

----------------------------------------------------------------------------
(* POST /files/:id/download *)

DownloadPasswords == {NoPassword, "", "pw", "guess"}

\* res.status(403).json({ error: 'File expired or inactive' }): the response
\* to a request that finds file with a status other than active
InactiveResponse(file) == "Inactive"

\* the increment made on maxDownloads
IncrementLimit(doc, r) ==
    PushHistory(SetPath(doc, "maxDownloads", doc.fields.maxDownloads + 1), r)

\* file.downloads++ and file.downloadHistory.push({...}), by request r
Increment(doc, r) ==
    PushHistory(SetPath(doc, "downloads", doc.fields.downloads + 1), r)

\* the expiry test made only on a document still active
IsPastIfActive(file) == file.status = "active" /\ now > file.expiresAt

\* new Date() > file.expiresAt
IsPast(file) == now > file.expiresAt

\* every status but expired passes
IsNotExpired(file) == file.status # "expired"

\* file.status !== 'active', negated
IsActive(file) == file.status = "active"

\* the limit test off by one
LimitExceeded(file) == file.downloads > file.maxDownloads

\* file.downloads >= file.maxDownloads
LimitReached(file) == file.downloads >= file.maxDownloads

\* the checks with the password's before the limit's
DownloadFindPasswordFirst(r, id, password) ==
    /\ Receivable(r)
    /\ LET file == FindById(id) IN
       IF file = NoFile
       THEN Respond(r, id, "NotFound")
       ELSE IF IsPast(file)
       THEN Await(r, id, "saveExpired", NoPassword,
                  SetPath(Found(id, file), "status", "expired"))
       ELSE IF ~IsActive(file)
       THEN Respond(r, id, InactiveResponse(file))
       ELSE IF file.passwordProtected /\ password \in {NoPassword, ""}
       THEN Respond(r, id, "Unauthorized")
       ELSE IF file.passwordProtected
               /\ ~bcryptCompare(password, file.passwordHash)
       THEN Await(r, id, "compare", password, Found(id, file))
       ELSE IF LimitReached(file)
       THEN Await(r, id, "saveLimit", NoPassword,
                  SetPath(Found(id, file), "status", "expired"))
       ELSE Await(r, id, "saveDownload", NoPassword, Increment(Found(id, file), r))
    /\ UNCHANGED <<now, files, uploads, cron, recentShares>>

\* findById has resolved: the checks, up to the handler's next await
DownloadFind(r, id, password) ==
    /\ Receivable(r)
    /\ LET file == FindById(id) IN
       IF file = NoFile
       THEN Respond(r, id, "NotFound")
       ELSE IF IsPast(file)
       THEN Await(r, id, "saveExpired", NoPassword,
                  SetPath(Found(id, file), "status", "expired"))
       ELSE IF ~IsActive(file)
       THEN Respond(r, id, InactiveResponse(file))
       ELSE IF LimitReached(file)
       THEN Await(r, id, "saveLimit", NoPassword,
                  SetPath(Found(id, file), "status", "expired"))
       ELSE IF file.passwordProtected
       THEN IF password \in {NoPassword, ""}
            THEN Respond(r, id, "Unauthorized")
            ELSE Await(r, id, "compare", password, Found(id, file))
       ELSE Await(r, id, "saveDownload", NoPassword, Increment(Found(id, file), r))
    /\ UNCHANGED <<now, files, uploads, cron, recentShares>>

\* bcrypt.compare has resolved
DownloadCompare(r) ==
    /\ reqs[r].pc = "compare"
    /\ LET doc == reqs[r].doc IN
       IF bcryptCompare(reqs[r].password, doc.fields.passwordHash)
       THEN Await(r, doc.id, "saveDownload", NoPassword, Increment(doc, r))
       ELSE Respond(r, doc.id, "Unauthorized")
    /\ UNCHANGED <<now, files, uploads, cron, recentShares>>

\* the save of the expired status has resolved: 403 'File has expired'
DownloadSaveExpired(r) ==
    /\ reqs[r].pc = "saveExpired"
    /\ files' = Save(files, reqs[r].doc)
    /\ Respond(r, reqs[r].doc.id, "Expired")
    /\ UNCHANGED <<now, uploads, cron, recentShares>>

\* 403 'Download limit reached' without the save
DownloadAnswerLimit(r) ==
    /\ reqs[r].pc = "saveLimit"
    /\ Respond(r, reqs[r].doc.id, "QuotaExceeded")
    /\ UNCHANGED <<now, files, uploads, cron, recentShares>>

\* the save of the expired status has resolved: 403 'Download limit reached'
DownloadSaveLimit(r) ==
    /\ reqs[r].pc = "saveLimit"
    /\ files' = Save(files, reqs[r].doc)
    /\ Respond(r, reqs[r].doc.id, "QuotaExceeded")
    /\ UNCHANGED <<now, uploads, cron, recentShares>>

\* fs.existsSync before the save: no file on disk, nothing saved
DownloadCheckThenSave(r) ==
    /\ reqs[r].pc = "saveDownload"
    /\ IF reqs[r].doc.fields.path \in uploads
       THEN /\ files' = Save(files, reqs[r].doc)
            /\ Await(r, reqs[r].doc.id, "send", NoPassword, Saved(reqs[r].doc))
       ELSE /\ files' = files
            /\ Respond(r, reqs[r].doc.id, "Integrity")
    /\ UNCHANGED <<now, uploads, cron, recentShares>>

\* the save of the incremented document has resolved; updateAnalytics is
\* awaited next
DownloadSave(r) ==
    /\ reqs[r].pc = "saveDownload"
    /\ files' = Save(files, reqs[r].doc)
    /\ Await(r, reqs[r].doc.id, "send", NoPassword, Saved(reqs[r].doc))
    /\ UNCHANGED <<now, uploads, cron, recentShares>>

\* updateAnalytics has resolved: fs.existsSync(filePath), then res.download
DownloadSend(r) ==
    /\ reqs[r].pc = "send"
    /\ LET doc == reqs[r].doc IN
       IF doc.fields.path \in uploads
       THEN Respond(r, doc.id, "Content")
       ELSE Respond(r, doc.id, "Integrity")
    /\ UNCHANGED <<now, files, uploads, cron, recentShares>>

----------------------------------------------------------------------------
(* GET /share/:id *)

\* findById has resolved: the expiry check, else the view count
\* (file.shareStats.totalViews++ modifies no path this model holds)
ShareFind(r, id) ==
    /\ Receivable(r)
    /\ LET file == FindById(id) IN
       IF file = NoFile
       THEN Respond(r, id, "PageNotFound")
       ELSE IF IsPast(file)
       THEN Await(r, id, "saveShareExpired", NoPassword,
                  SetPath(Found(id, file), "status", "expired"))
       ELSE Await(r, id, "saveShare", NoPassword, Found(id, file))
    /\ UNCHANGED <<now, files, uploads, cron, recentShares>>

\* the save of the expired status has resolved: the 'File Expired' page
ShareSaveExpired(r) ==
    /\ reqs[r].pc = "saveShareExpired"
    /\ files' = Save(files, reqs[r].doc)
    /\ Respond(r, reqs[r].doc.id, "PageExpired")
    /\ UNCHANGED <<now, uploads, cron, recentShares>>

\* the save of the view count has resolved: the download page
ShareSave(r) ==
    /\ reqs[r].pc = "saveShare"
    /\ files' = Save(files, reqs[r].doc)
    /\ Respond(r, reqs[r].doc.id, "Page")
    /\ UNCHANGED <<now, uploads, cron, recentShares>>

----------------------------------------------------------------------------
(* app.use('/files', express.static(UPLOADS_DIR)): GET /files/<path> *)

\* the file of that name in the uploads directory is sent as it is; with no
\* such file the request falls through to the 404 handler
StaticGet(r, path) ==
    /\ Receivable(r)
    /\ IF path \in uploads
       THEN Respond(r, path, "File")
       ELSE Respond(r, path, "RouteNotFound")
    /\ UNCHANGED <<now, files, uploads, cron, recentShares>>

----------------------------------------------------------------------------
(* cron.schedule('0 * * * *'): the scheduled cleanup *)

\* the filter without its expiresAt condition
IsActiveOnly(file, t) ==
    /\ file # NoFile
    /\ file.status = "active"

\* the filter with $gt for $lte: the documents not yet due
IsNotYetStale(file, t) ==
    /\ file # NoFile
    /\ file.status = "active"
    /\ file.expiresAt > t

\* the filter {status: 'active', expiresAt: {$lte: now}} at clock t
IsStale(file, t) ==
    /\ file # NoFile
    /\ file.status = "active"
    /\ file.expiresAt <= t

\* File.findOne(filter): the first matching document alone
RECURSIVE FindOne(_, _, _)
FindOne(store, from, t) ==
    IF from > MaxOps THEN <<>>
    ELSE IF IsStale(store[from], t) THEN <<Found(from, store[from])>>
         ELSE FindOne(store, from + 1, t)

\* File.find(filter): the matching documents of the collection, in _id order
RECURSIVE Find(_, _, _)
Find(store, from, t) ==
    IF from > MaxOps THEN <<>>
    ELSE IF IsStale(store[from], t)
         THEN <<Found(from, store[from])>> \o Find(store, from + 1, t)
         ELSE Find(store, from + 1, t)

\* UserSettings.findOne({userId: 'default'}): null, or the document with
\* either value of security.autoDeleteExpired.  The settings endpoint that
\* writes it is not part of these sources: every read may find any of them.
NoSettings == [userId |-> "none"]

UserSettings ==
    {NoSettings} \cup
    {[userId |-> "default", autoDeleteExpired |-> b] : b \in BOOLEAN}

\* the settings document taken for its security.autoDeleteExpired
autoDeleteUnlessAbsent(settings) == settings # NoSettings

\* settings?.security?.autoDeleteExpired
autoDeleteExpired(settings) ==
    settings # NoSettings /\ settings.autoDeleteExpired

\* file.status = 'expired'; await file.save()
Expire(store, doc) == Save(store, SetPath(doc, "status", "expired"))

\* if (autoDeleteExpired) { if (existsSync(filePath)) unlinkSync(filePath) }
Unlink(dir, doc, settings) ==
    IF autoDeleteExpired(settings) THEN dir \ {doc.fields.path} ELSE dir

\* the job fires and File.find resolves; with nothing found the loop is empty
CronFind ==
    /\ cron.pc = "idle"
    /\ LET expiredFiles == Find(files, 1, now) IN
       cron' = IF expiredFiles = <<>> THEN cron
               ELSE [pc |-> "save", expiredFiles |-> expiredFiles]
    /\ UNCHANGED <<now, files, uploads, reqs, recentShares>>

\* file.save() of the loop's current document has resolved
CronSave ==
    /\ cron.pc = "save"
    /\ files' = Expire(files, Head(cron.expiredFiles))
    /\ cron' = [cron EXCEPT !.pc = "unlink"]
    /\ UNCHANGED <<now, uploads, reqs, recentShares>>

\* UserSettings.findOne has resolved: the unlink when the setting asks for
\* it, then the loop's next document
CronUnlink(settings) ==
    /\ cron.pc = "unlink"
    /\ uploads' = Unlink(uploads, Head(cron.expiredFiles), settings)
    /\ cron' = IF Tail(cron.expiredFiles) = <<>>
               THEN [pc |-> "idle", expiredFiles |-> <<>>]
               ELSE [pc |-> "save", expiredFiles |-> Tail(cron.expiredFiles)]
    /\ UNCHANGED <<now, files, reqs, recentShares>>

\* a rejected save that is logged and passed over: the loop goes on
CronSaveSkips ==
    /\ cron.pc = "save"
    /\ cron' = IF Tail(cron.expiredFiles) = <<>>
               THEN [pc |-> "idle", expiredFiles |-> <<>>,
                     error |-> "Scheduled cleanup error"]
               ELSE [pc |-> "save", expiredFiles |-> Tail(cron.expiredFiles),
                     error |-> "Scheduled cleanup error"]
    /\ UNCHANGED <<now, files, uploads, reqs, recentShares>>

\* file.save() of the loop's current document has rejected: the outer catch
\* logs 'Scheduled cleanup error' and the run is over
CronSaveFails ==
    /\ cron.pc = "save"
    /\ cron' = [pc |-> "idle", expiredFiles |-> <<>>,
                error |-> "Scheduled cleanup error"]
    /\ UNCHANGED <<now, files, uploads, reqs, recentShares>>

\* a throwing unlinkSync that ends the run
CronUnlinkAborts(settings) ==
    /\ cron.pc = "unlink"
    /\ autoDeleteExpired(settings)
    /\ Head(cron.expiredFiles).fields.path \in uploads
    /\ cron' = [pc |-> "idle", expiredFiles |-> <<>>,
                error |-> "Failed to delete expired file"]
    /\ UNCHANGED <<now, files, uploads, reqs, recentShares>>

\* fs.unlinkSync has thrown: the inner catch logs 'Failed to delete expired
\* file' and the loop goes on to its next document
CronUnlinkFails(settings) ==
    /\ cron.pc = "unlink"
    /\ autoDeleteExpired(settings)
    /\ Head(cron.expiredFiles).fields.path \in uploads
    /\ cron' = IF Tail(cron.expiredFiles) = <<>>
               THEN [pc |-> "idle", expiredFiles |-> <<>>,
                     error |-> "Failed to delete expired file"]
               ELSE [pc |-> "save", expiredFiles |-> Tail(cron.expiredFiles),
                     error |-> "Failed to delete expired file"]
    /\ UNCHANGED <<now, files, uploads, reqs, recentShares>>

\* one run of the job with no other handler running during it: the
\* collection and the directory it leaves
RECURSIVE CronLoop(_, _, _, _)
CronLoop(store, dir, expiredFiles, settings) ==
    IF expiredFiles = <<>> THEN <<store, dir>>
    ELSE CronLoop(Expire(store, Head(expiredFiles)),
                  Unlink(dir, Head(expiredFiles), settings),
                  Tail(expiredFiles), settings)

CronRun(store, dir, t, settings) ==
    CronLoop(store, dir, Find(store, 1, t), settings)

----------------------------------------------------------------------------
(* PUT /api/files/:id/toggle-status, the administrator's Disable / Enable  *)

ToggleStatus(id) ==
    /\ files[id] # NoFile
    /\ files[id].status \in {"active", "disabled"}
    /\ files' = [files EXCEPT ![id].status =
                    IF @ = "active" THEN "disabled" ELSE "active"]
    /\ UNCHANGED <<now, uploads, reqs, cron, recentShares>>

----------------------------------------------------------------------------

Next ==
    \/ Tick
    \/ \E password \in UploadPasswords, expiresIn \in UploadExpiresIn :
          Upload(password, expiresIn)
    \/ \E r \in ReqIds, id \in RequestIds, password \in DownloadPasswords :
          DownloadFind(r, id, password)
    \/ \E r \in ReqIds : DownloadCompare(r)
    \/ \E r \in ReqIds : DownloadSaveExpired(r)
    \/ \E r \in ReqIds : DownloadSaveLimit(r)
    \/ \E r \in ReqIds : DownloadSave(r)
    \/ \E r \in ReqIds : DownloadSend(r)
    \/ \E r \in ReqIds, id \in RequestIds : ShareFind(r, id)
    \/ \E r \in ReqIds : ShareSaveExpired(r)
    \/ \E r \in ReqIds : ShareSave(r)
    \/ CronFind
    \/ CronSave
    \/ \E settings \in UserSettings : CronUnlink(settings)
    \/ \E id \in FileIds : ToggleStatus(id)

Spec == Init /\ [][Next]_vars

\* the server with the job scheduled for ever (cron.schedule fires every
\* hour) and its awaits resolving: each step of the cleanup is taken in the
\* end
SpecLive ==
    /\ Init
    /\ [][Next]_vars
    /\ WF_vars(CronFind)
    /\ WF_vars(CronSave)
    /\ WF_vars(\E settings \in UserSettings : CronUnlink(settings))

\* the server with its static route
NextStatic ==
    \/ Next
    \/ \E r \in ReqIds, path \in RequestIds : StaticGet(r, path)

SpecStatic == Init /\ [][NextStatic]_vars

\* the server with the writes of the cleanup failing at will: a rejected
\* save, a throwing unlinkSync
NextFaults ==
    \/ Next
    \/ CronSaveFails
    \/ \E settings \in UserSettings : CronUnlinkFails(settings)

SpecFaults == Init /\ [][NextFaults]_vars

\* the component alone, the server at rest
SpecRecentShares == Init /\ [][NextRecentShares]_vars

----------------------------------------------------------------------------
(* The upload handler alone, over every expiresIn string of up to MaxLen   *)
(* characters of ExpiryChars.                                              *)

MaxLen == 3

ExpiryChars == {"2", "h", "x"}

ExpiryStrings ==
    UNION {[1..n -> ExpiryChars] : n \in 0..MaxLen}

UploadAny ==
    \E password \in UploadPasswords, expiresIn \in ExpiryStrings :
        Upload(password, expiresIn)

NextExpiry == Tick \/ UploadAny

SpecExpiry == Init /\ [][NextExpiry]_vars

----------------------------------------------------------------------------
(* Properties *)

Stored == {id \in FileIds : files[id] # NoFile}

\* the requests that were answered res for document id
Answered(id, res) == {r \in ReqIds : reqs[r].id = id /\ reqs[r].res = res}

\* request r takes a step
Steps(r) == reqs'[r] # reqs[r]

\* C1: the stored downloads of a document never exceeds its maxDownloads,
\* whatever the interleaving of the download requests on it.
C1_DownloadsWithinLimit ==
    \A id \in Stored : files[id].downloads <= files[id].maxDownloads

\* two download requests on one document have both been served and the
\* stored count stands at the limit
C1_Witness ==
    \E id \in Stored :
        /\ Cardinality(Answered(id, "Content")) >= 2
        /\ files[id].downloads = files[id].maxDownloads

\* C2: of the download requests racing on a document with k downloads left
\* exactly k are served and the others are refused: never more content
\* responses than maxDownloads (the count starts at 0).
C2_ServedWithinLimit ==
    \A id \in Stored :
        Cardinality(Answered(id, "Content")) <= files[id].maxDownloads

\* C3: a download request received after the document's expiresAt is
\* answered 'File has expired' and leaves the stored status expired, whatever
\* the stored status, the count and the password, and with downloads and
\* downloadHistory as they were.
C3_PastExpiryFails ==
    [][\A r \in ReqIds :
        /\ \A id \in Stored, password \in DownloadPasswords :
             (DownloadFind(r, id, password) /\ now > files[id].expiresAt)
                => reqs'[r].pc = "saveExpired"
        /\ (reqs[r].pc = "saveExpired" /\ Steps(r))
             => /\ reqs'[r].res = "Expired"
                /\ files'[reqs[r].id].status = "expired"
                /\ files'[reqs[r].id].downloads = files[reqs[r].id].downloads
                /\ files'[reqs[r].id].downloadHistory
                      = files[reqs[r].id].downloadHistory
                /\ \A id \in FileIds \ {reqs[r].id} : files'[id] = files[id]
      ]_vars

\* a request has been answered 'File has expired' for a password-protected
\* document with downloads left, which is stored expired
C3_Witness ==
    \E r \in ReqIds :
        /\ reqs[r].res = "Expired"
        /\ files[reqs[r].id].status = "expired"
        /\ files[reqs[r].id].downloads < files[reqs[r].id].maxDownloads
        /\ files[reqs[r].id].passwordProtected

\* C4: on a password-protected document that is stored active, not past its
\* expiresAt and below its limit, a download request with the password whose
\* hash is stored goes on to save the download and is sent the content when
\* the file is on disk; one with another password, an empty one or none is
\* answered 'Invalid password' and the collection is left as it was.
C4_PasswordDecides ==
    [][\A r \in ReqIds :
        /\ \A id \in Stored, password \in DownloadPasswords :
             ( /\ DownloadFind(r, id, password)
               /\ files[id].passwordProtected
               /\ files[id].status = "active"
               /\ now <= files[id].expiresAt
               /\ files[id].downloads < files[id].maxDownloads )
             => IF password \in {NoPassword, ""}
                THEN reqs'[r].res = "Unauthorized" /\ files' = files
                ELSE reqs'[r].pc = "compare" /\ reqs'[r].password = password
        /\ (reqs[r].pc = "compare" /\ Steps(r))
             => IF files[reqs[r].id].passwordHash = bcryptHash(reqs[r].password)
                THEN reqs'[r].pc = "saveDownload"
                ELSE reqs'[r].res = "Unauthorized" /\ files' = files
        /\ (reqs[r].pc = "saveDownload" /\ Steps(r))
             => reqs'[r].pc = "send"
        /\ (reqs[r].pc = "send" /\ Steps(r) /\ reqs[r].id \in uploads)
             => reqs'[r].res = "Content"
      ]_vars

\* of two requests on a password-protected document one was sent the
\* content and the other answered 'Invalid password'
C4_Witness ==
    \E id \in Stored :
        /\ files[id].passwordProtected
        /\ Answered(id, "Content") # {}
        /\ Answered(id, "Unauthorized") # {}
        /\ files[id].downloads = 1

\* C5 (amended): a download request that finds the document disabled changes
\* neither downloads nor downloadHistory; it is answered 'File expired or
\* inactive' when the clock is not past expiresAt, and when it is past, it
\* takes the expiry branch, which stores the status expired.
C5_DisabledRefused ==
    [][\A r \in ReqIds :
        /\ \A id \in Stored, password \in DownloadPasswords :
             (DownloadFind(r, id, password) /\ files[id].status = "disabled")
             => /\ files' = files
                /\ IF now > files[id].expiresAt
                   THEN reqs'[r].pc = "saveExpired"
                   ELSE reqs'[r].res = "Inactive"
        /\ (reqs[r].pc = "saveExpired" /\ Steps(r))
             => /\ files'[reqs[r].id].downloads = files[reqs[r].id].downloads
                /\ files'[reqs[r].id].downloadHistory
                      = files[reqs[r].id].downloadHistory
      ]_vars

\* a request on a disabled document, not past its expiresAt, has been
\* answered 'File expired or inactive'
C5_Witness ==
    \E r \in ReqIds :
        /\ reqs[r].res = "Inactive"
        /\ files[reqs[r].id].status = "disabled"
        /\ now <= files[reqs[r].id].expiresAt

\* C5 as stated: a download request that finds the document disabled is
\* answered 'File expired or inactive', with the collection unchanged.
C5_DisabledAlwaysInactive ==
    [][\A r \in ReqIds, id \in Stored, password \in DownloadPasswords :
        (DownloadFind(r, id, password) /\ files[id].status = "disabled")
        => reqs'[r].res = "Inactive" /\ files' = files
      ]_vars

\* C6: no document is stored active with downloads at its maxDownloads: the
\* save that takes the count to the limit stores the status expired with it.
C6_ExhaustedIsExpired ==
    \A id \in Stored :
        files[id].downloads >= files[id].maxDownloads
            => files[id].status # "active"

\* C7: the stored downloadHistory of a document has as many entries as its
\* stored downloads says.
C7_HistoryMatchesCount ==
    \A id \in Stored :
        Len(files[id].downloadHistory) = files[id].downloads

\* C8 (the cleanup's case): a download whose document has been stored
\* expired since the request read it does not save its increment.
C8_NoCommitOnExpired ==
    [][\A r \in ReqIds :
        ( /\ reqs[r].pc = "saveDownload"
          /\ Steps(r)
          /\ files[reqs[r].id].status = "expired" )
        => /\ files'[reqs[r].id].downloads = files[reqs[r].id].downloads
           /\ files'[reqs[r].id].downloadHistory
                 = files[reqs[r].id].downloadHistory
      ]_vars

\* C9: the documents a run of the cleanup holds were stored active with
\* expiresAt <= now when the run found them; the run writes to those
\* documents only, and of them only the status, which it stores expired.
C9_CleanupFrame ==
    [][/\ (cron.pc = "idle" /\ cron'.pc = "save")
            => \A i \in 1..Len(cron'.expiredFiles) :
                 LET id == cron'.expiredFiles[i].id IN
                 /\ files[id].status = "active"
                 /\ files[id].expiresAt <= now
       /\ (cron.pc # "idle" /\ cron' # cron)
            => /\ \A id \in FileIds :
                    files'[id] # files[id]
                    => /\ id = Head(cron.expiredFiles).id
                       /\ files'[id] = [files[id] EXCEPT !.status = "expired"]
               /\ \A i \in 1..Len(cron'.expiredFiles) :
                    \E j \in 1..Len(cron.expiredFiles) :
                       cron'.expiredFiles[i] = cron.expiredFiles[j]
      ]_vars

\* the cleanup has just stored one document expired, and another that is
\* active and not past its expiresAt is stored as uploaded
C9_Witness ==
    /\ cron.pc = "unlink"
    /\ files[Head(cron.expiredFiles).id].status = "expired"
    /\ \E id \in Stored :
          /\ now < files[id].expiresAt
          /\ files[id] =
               NewFile(id, files[id].expiresAt, files[id].passwordProtected,
                       files[id].passwordHash)

\* C10: a run of the cleanup right after a run of the cleanup, at the same
\* clock, leaves the collection and the uploads directory as the first run
\* left them, whatever the settings either run reads.
C10_CleanupIdempotent ==
    \A first \in UserSettings, second \in UserSettings :
        LET once == CronRun(files, uploads, now, first) IN
        CronRun(once[1], once[2], now, second) = once

\* two documents are stale and on disk: a run of the cleanup expires both
\* and, set to, unlinks both
C10_Witness ==
    \E a \in Stored, b \in Stored :
        /\ a # b
        /\ IsStale(files[a], now) /\ IsStale(files[b], now)
        /\ {a, b} \subseteq uploads
        /\ \E settings \in UserSettings :
              LET once == CronRun(files, uploads, now, settings) IN
              /\ once[1][a].status = "expired" /\ once[1][b].status = "expired"
              /\ once[2] = uploads \ {a, b}

Unparseable(expiresIn) ==
    ~ \E i \in 1..(Len(expiresIn) - 1) :
          IsDigit(expiresIn[i]) /\ IsUnit(expiresIn[i + 1])

\* C12: an upload whose expiresIn cannot be parsed stores its document all
\* the same, with expiresAt 24 hours after the clock of the upload.
C12_UnparseableDefaults ==
    [][\A password \in UploadPasswords, expiresIn \in ExpiryStrings :
        (Upload(password, expiresIn) /\ Unparseable(expiresIn))
        => \E id \in FileIds :
              /\ files[id] = NoFile
              /\ files'[id] # NoFile
              /\ files'[id].expiresAt = now + 24
      ]_vars

\* a document uploaded after the clock's start is stored with expiresAt 24
\* hours after the upload, which no parsed string of ExpiryStrings gives
C12_Witness ==
    \E id \in Stored :
        /\ now > 0
        /\ files[id].expiresAt = now + 24
        /\ \A expiresIn \in ExpiryStrings :
              ~Unparseable(expiresIn)
              => calculateExpirationDate(expiresIn, now) # now + 24

\* C13: the document an upload stores is active, has downloads 0, an empty
\* downloadHistory and a positive maxDownloads.
C13_UploadedFresh ==
    [][\A id \in FileIds :
        (files[id] = NoFile /\ files'[id] # NoFile)
        => /\ files'[id].status = "active"
           /\ files'[id].downloads = 0
           /\ files'[id].downloadHistory = <<>>
           /\ files'[id].maxDownloads > 0
      ]_vars

\* a document has been uploaded while another was already stored expired
\* with a download counted
C13_Witness ==
    \E a \in Stored, b \in Stored :
        /\ a < b
        /\ files[a].status = "expired" /\ files[a].downloads > 0
        /\ files[b] =
              NewFile(b, files[b].expiresAt, files[b].passwordProtected,
                      files[b].passwordHash)
        /\ files[b].expiresAt > files[a].expiresAt

\* C14: a download request received when the clock equals the document's
\* expiresAt, or is past it, takes the expiry branch: it is answered 'File
\* has expired' and the status is stored expired.
C14_ExpiryInclusive ==
    [][\A r \in ReqIds, id \in Stored, password \in DownloadPasswords :
        (DownloadFind(r, id, password) /\ now >= files[id].expiresAt)
        => reqs'[r].pc = "saveExpired"
      ]_vars

\* C15: the download handler checks, in this order, that the document
\* exists, that the clock is not past its expiresAt, that its status is
\* active, that its downloads is below maxDownloads, and the password; the
\* response is that of the first check that fails, whatever the password.
C15_FirstFailingCheck ==
    [][\A r \in ReqIds :
        /\ \A id \in RequestIds, password \in DownloadPasswords :
             DownloadFind(r, id, password)
             => LET file == FindById(id) IN
                IF file = NoFile
                THEN reqs'[r].res = "NotFound"
                ELSE IF now > file.expiresAt
                THEN reqs'[r].pc = "saveExpired"
                ELSE IF file.status # "active"
                THEN reqs'[r].res = "Inactive"
                ELSE IF file.downloads >= file.maxDownloads
                THEN reqs'[r].pc = "saveLimit"
                ELSE IF file.passwordProtected
                        /\ file.passwordHash # bcryptHash(password)
                THEN \/ reqs'[r].res = "Unauthorized"
                     \/ reqs'[r].pc = "compare" /\ reqs'[r].password = password
                ELSE reqs'[r].pc \in {"compare", "saveDownload"}
        /\ (reqs[r].pc = "saveExpired" /\ Steps(r))
             => reqs'[r].res = "Expired"
        /\ (reqs[r].pc = "saveLimit" /\ Steps(r))
             => reqs'[r].res = "QuotaExceeded"
        /\ ( /\ reqs[r].pc = "compare"
             /\ Steps(r)
             /\ reqs[r].doc.fields.passwordHash # bcryptHash(reqs[r].password) )
             => reqs'[r].res = "Unauthorized"
      ]_vars

\* a request has been answered 'File has expired' for a password-protected
\* document that is also at its limit
C15_Witness ==
    \E r \in ReqIds :
        /\ reqs[r].res = "Expired"
        /\ files[reqs[r].id].passwordProtected
        /\ files[reqs[r].id].downloads >= files[reqs[r].id].maxDownloads

\* C16: a download request that finds the document active, not past its
\* expiresAt and with downloads at maxDownloads or above is answered
\* 'Download limit reached'; it stores the status expired and leaves
\* downloads and downloadHistory as they were.
C16_LimitReachedExpires ==
    [][\A r \in ReqIds :
        /\ \A id \in Stored, password \in DownloadPasswords :
             ( /\ DownloadFind(r, id, password)
               /\ files[id].status = "active"
               /\ now <= files[id].expiresAt
               /\ files[id].downloads >= files[id].maxDownloads )
             => reqs'[r].pc = "saveLimit" /\ files' = files
        /\ (reqs[r].pc = "saveLimit" /\ Steps(r))
             => /\ reqs'[r].res = "QuotaExceeded"
                /\ files'[reqs[r].id].status = "expired"
                /\ files'[reqs[r].id].downloads = files[reqs[r].id].downloads
                /\ files'[reqs[r].id].downloadHistory
                      = files[reqs[r].id].downloadHistory
                /\ \A id \in FileIds \ {reqs[r].id} : files'[id] = files[id]
      ]_vars

\* a request has been answered 'Download limit reached' for a document not
\* past its expiresAt, stored expired with its downloads at the limit and
\* one downloadHistory entry for each
C16_Witness ==
    \E r \in ReqIds :
        /\ reqs[r].res = "QuotaExceeded"
        /\ now <= files[reqs[r].id].expiresAt
        /\ files[reqs[r].id].status = "expired"
        /\ files[reqs[r].id].downloads = files[reqs[r].id].maxDownloads
        /\ Len(files[reqs[r].id].downloadHistory) = files[reqs[r].id].downloads

\* C17: the stored downloads of a document is the number of download
\* requests that succeeded on it: each request that was sent the content
\* is counted.
C17_CountIsSuccesses ==
    \A id \in Stored :
        Cardinality(Answered(id, "Content")) <= files[id].downloads

\* C18: the response to a download request that finds the document disabled
\* is not the response it would be given had it found the document expired:
\* the response tells the status.
C18_InactiveTellsStatus ==
    [][\A r \in ReqIds, id \in Stored, password \in DownloadPasswords :
        ( /\ DownloadFind(r, id, password)
          /\ files[id].status = "disabled"
          /\ now <= files[id].expiresAt )
        => reqs'[r].res # InactiveResponse([files[id] EXCEPT !.status = "expired"])
      ]_vars

\* C19: the response to a download request whose file is missing on disk
\* has a server-error status, which is not the status of the response for a
\* document not found.
C19_IntegrityIsServerError ==
    \A r \in ReqIds :
        reqs[r].res = "Integrity"
        => /\ StatusCode(reqs[r].res) >= 500
           /\ StatusCode(reqs[r].res) # StatusCode("NotFound")

\* C20: a path leaves the uploads directory only in the cleanup's step
\* after its save, when the settings read at that step have
\* security.autoDeleteExpired set, and the path is that of the document the
\* cleanup found active and has just stored expired; with settings that
\* have it unset, or with no settings document, the step removes nothing.
C20_UnlinkOnlyIfSet ==
    [][/\ \A path \in uploads \ uploads' :
            /\ cron.pc = "unlink"
            /\ path = Head(cron.expiredFiles).fields.path
            /\ Head(cron.expiredFiles).fields.status = "active"
            /\ files[Head(cron.expiredFiles).id].status = "expired"
            /\ \E settings \in UserSettings :
                  /\ settings # NoSettings
                  /\ settings.autoDeleteExpired
                  /\ CronUnlink(settings)
       /\ \A settings \in UserSettings :
            (CronUnlink(settings)
               /\ (settings = NoSettings \/ ~settings.autoDeleteExpired))
            => uploads' = uploads
      ]_vars

\* the cleanup has stored two documents expired: the file of one is gone
\* from the uploads directory, the file of the other is still there
C20_Witness ==
    \E a \in Stored, b \in Stored :
        /\ cron.pc = "idle"
        /\ files[a].status = "expired" /\ files[a].downloads = 0
        /\ files[b].status = "expired" /\ files[b].downloads = 0
        /\ files[a].path \notin uploads
        /\ files[b].path \in uploads
        /\ reqs = [r \in ReqIds |-> Idle]

\* the metadata requests of the component still awaiting their response
Outstanding ==
    {k \in 1..Len(recentShares.fetches) : recentShares.fetches[k].pc = "pending"}

\* C30: when no metadata request is outstanding and the last one issued was
\* answered ok, files and summary hold the data of that last request; and
\* loading is false only when no request is outstanding.
C30_LatestFetchShown ==
    /\ ( /\ Outstanding = {}
         /\ recentShares.fetches # <<>>
         /\ recentShares.fetches[Len(recentShares.fetches)].pc = "ok" )
       => recentShares.files = Len(recentShares.fetches)
    /\ ~recentShares.loading => Outstanding = {}

\* the cleanup has logged error during its current or last run
Logged(error) == "error" \in DOMAIN cron /\ cron.error = error

\* C21: an unlinkSync that throws during the cleanup leaves the document it
\* was called for stored expired and the collection as it is, and the loop
\* goes on: the documents the run still holds are the rest of those it
\* found, each to be saved expired and, the setting asking for it, unlinked.
C21_UnlinkFailureGoesOn ==
    [][/\ \A settings \in UserSettings :
            CronUnlinkFails(settings)
            => /\ files' = files
               /\ files[Head(cron.expiredFiles).id].status = "expired"
               /\ cron'.expiredFiles = Tail(cron.expiredFiles)
               /\ cron'.pc = IF Tail(cron.expiredFiles) = <<>>
                             THEN "idle" ELSE "save"
       /\ (cron.pc = "save" /\ cron'.pc = "unlink")
            => /\ files'[Head(cron.expiredFiles).id].status = "expired"
               /\ cron'.expiredFiles = cron.expiredFiles
       /\ \A settings \in UserSettings :
            (CronUnlink(settings) /\ autoDeleteExpired(settings))
            => Head(cron.expiredFiles).fields.path \notin uploads'
      ]_vars

\* after an unlinkSync that threw, which left the file of an expired
\* document on disk, the run has stored its next document expired
C21_Witness ==
    /\ Logged("Failed to delete expired file")
    /\ cron.pc = "unlink"
    /\ files[Head(cron.expiredFiles).id].status = "expired"
    /\ \E id \in Stored :
          /\ id # Head(cron.expiredFiles).id
          /\ files[id].status = "expired"
          /\ files[id].path \in uploads

C22_CreationFieldsKept ==
    [][\A id \in FileIds :
        files[id] # NoFile
        => /\ files'[id] # NoFile
           /\ files'[id].expiresAt = files[id].expiresAt
           /\ files'[id].maxDownloads = files[id].maxDownloads
           /\ files'[id].passwordHash = files[id].passwordHash
           /\ files'[id].passwordProtected = files[id].passwordProtected
           /\ files'[id].path = files[id].path
      ]_vars

\* a document has been downloaded, viewed on its share page and stored
\* expired
C22_Witness ==
    \E id \in Stored :
        /\ files[id].status = "expired"
        /\ files[id].downloads > 0
        /\ Answered(id, "Page") # {}
        /\ Answered(id, "Content") # {}

\* C23: a download request that finds a document with no password hash,
\* active, not past its expiresAt and below its limit goes on to save the
\* download without bcrypt.compare, whatever password it carries, and is
\* sent the content when the file is on disk.
C23_NoPasswordNoCompare ==
    [][\A r \in ReqIds :
        /\ \A id \in Stored, password \in DownloadPasswords :
             ( /\ DownloadFind(r, id, password)
               /\ files[id].passwordHash = <<>>
               /\ files[id].status = "active"
               /\ now <= files[id].expiresAt
               /\ files[id].downloads < files[id].maxDownloads )
             => reqs'[r].pc = "saveDownload"
        /\ (reqs[r].pc = "saveDownload" /\ Steps(r))
             => reqs'[r].pc = "send"
        /\ (reqs[r].pc = "send" /\ Steps(r) /\ reqs[r].id \in uploads)
             => reqs'[r].res = "Content"
      ]_vars

\* a request on a document with no password hash has been sent the content
\* while a password-protected document is stored beside it
C23_Witness ==
    \E a \in Stored, b \in Stored :
        /\ files[a].passwordHash = <<>>
        /\ ~files[a].passwordProtected
        /\ Answered(a, "Content") # {}
        /\ files[b].passwordProtected

\* C27: a download request answered 'File missing on disk' has saved its
\* download: its entry is in the stored downloadHistory and the stored
\* downloads counts at least one.
C27_IntegrityCommitted ==
    \A r \in ReqIds :
        reqs[r].res = "Integrity"
        => /\ \E i \in 1..Len(files[reqs[r].id].downloadHistory) :
                 files[reqs[r].id].downloadHistory[i] = r
           /\ files[reqs[r].id].downloads > 0

\* a request has been answered 'File missing on disk' for a document the
\* cleanup stored expired and whose file it unlinked
C27_Witness ==
    \E r \in ReqIds :
        /\ reqs[r].res = "Integrity"
        /\ files[reqs[r].id].status = "expired"
        /\ files[reqs[r].id].path \notin uploads

\* C28: a share-page view writes nothing when it finds the document; its
\* save leaves every document as stored, but for the status of its own,
\* which it may store expired when the clock is past expiresAt: the
\* downloads, downloadHistory and status others stored meanwhile stay.
C28_ShareViewFrame ==
    [][\A r \in ReqIds :
        /\ \A id \in RequestIds : ShareFind(r, id) => files' = files
        /\ (reqs[r].pc \in {"saveShare", "saveShareExpired"} /\ Steps(r))
             => /\ \A id \in FileIds \ {reqs[r].id} : files'[id] = files[id]
                /\ \/ files'[reqs[r].id] = files[reqs[r].id]
                   \/ /\ files'[reqs[r].id] =
                            [files[reqs[r].id] EXCEPT !.status = "expired"]
                      /\ reqs[r].pc = "saveShareExpired"
                      /\ now > files[reqs[r].id].expiresAt
      ]_vars

\* a share-page view waits to save a document it read before a download
\* was saved on it and before it was stored expired
C28_Witness ==
    \E r \in ReqIds :
        /\ reqs[r].pc = "saveShare"
        /\ reqs[r].doc.fields.downloads < files[reqs[r].id].downloads
        /\ reqs[r].doc.fields.status = "active"
        /\ files[reqs[r].id].status = "expired"

\* C24: a document stored active with expiresAt <= now is in the end stored
\* with another status (expired, unless the administrator disables it
\* first), with no request ever made on it.
C24_StaleExpiresInTheEnd ==
    \A id \in FileIds :
        (files[id].status = "active" /\ files[id].expiresAt <= now)
            ~> (files[id].status # "active")

\* the cleanup has stored expired a document on which no request was ever
\* made
C24_Witness ==
    \E id \in Stored :
        /\ files[id].status = "expired"
        /\ \A r \in ReqIds : reqs[r].id # id
        /\ cron.pc = "unlink"

\* C25: the maxDownloads a request to POST /upload carries is the
\* maxDownloads of the document the upload stores.
C25_QuotaBecomesLimit ==
    [][\A password \in UploadPasswords, expiresIn \in UploadExpiresIn,
          maxDownloads \in 1..(QuotaDefault + 1), id \in FileIds :
        (Upload(password, expiresIn) /\ files[id] = NoFile /\ files'[id] # NoFile)
        => files'[id].maxDownloads = maxDownloads
      ]_vars

\* C26: no request but a download that passed the checks is sent a stored
\* file: GET /files/<path> sends none for a document that is expired,
\* disabled, past its expiresAt, at its limit or password-protected.
C26_ContentOnlyByDownload ==
    [][\A r \in ReqIds, path \in FileIds :
        ( /\ StaticGet(r, path)
          /\ files[path] # NoFile
          /\ \/ files[path].status # "active"
             \/ now > files[path].expiresAt
             \/ files[path].downloads >= files[path].maxDownloads
             \/ files[path].passwordProtected )
        => reqs'[r].res # "File"
      ]_vars

====
